---------------------------- MODULE Spec2Model ----------------------------
(***************************************************************************)
(* Model of extensions/sourcegraph/src/components/SearchCommand.tsx:       *)
(*   - the search session kept by useSearch (SearchState, cancelRef, the   *)
(*     search() entry point and the four stream callbacks), and            *)
(*   - the detail view ResultView with its lazy file-content query.        *)
(*                                                                         *)
(* JavaScript runs every callback to completion.  search() is an async     *)
(* function: its statements up to the await of performSearch run in one    *)
(* task, so while pc # "idle" no other action is enabled.  React applies   *)
(* the updater functions handed to setState in the order they were queued, *)
(* each to the state left by the one before, so the variable state holds   *)
(* the value after every queued updater has been applied.                  *)
(***************************************************************************)
EXTENDS Integers, Sequences, FiniteSets, TLC

\* ------------------------------------------------------------------ bounds

\* search() invocations (generations) in one behaviour
MaxSearches == 2
\* stream events delivered in one behaviour
MaxEvents == 2
\* mounts of the detail view of one item in one behaviour
MaxMounts == 3

Gens == 1..MaxSearches

\* ------------------------------------------------------------ session state

VARIABLES
  state,      \* SearchState: [results, suggestions, summary, isLoading]
  cancelRef,  \* cancelRef.current: 0 for null, else the generation whose AbortController it holds
  aborted,    \* generations whose AbortController has been aborted
  pc,         \* position of the running search() before its await: "idle" when none runs
  stream,     \* per generation, the performSearch promise: "none", "open", "resolved", "rejected"
  call,       \* per generation, the search() invocation: "none", "awaiting", "returned", "caught", "threw"
  reason,     \* per generation, the error its performSearch promise rejected with ("" when none)
  toast,      \* the notification last shown: NoToast before the first
  nToasts,    \* history: how many notifications have been shown
  log,        \* history: the events folded into state since the last reset, in arrival order
  resets,     \* history: per generation, how often its search() has reset state
  nEvents     \* events delivered so far (bounded by MaxEvents)

sessionVars == <<state, cancelRef, aborted, pc, stream, call, reason, toast, nToasts, log, resets, nEvents>>

\* the detail view (ResultView)
VARIABLES
  item,       \* the match of the search result whose detail view is opened
  mounted,    \* whether a ResultView for item is on the navigation stack
  mounts,     \* how many ResultView instances have been mounted for item
  fileContents, \* the useLazyQuery result of the mounted instance: [called, status, blob, error]
  rendered,   \* what the latest render of the mounted instance returned
  fetches     \* history: per mounted instance, the getFileContents calls it made

viewVars == <<item, mounted, mounts, fileContents, rendered, fetches>>

\* one call of a helper function of the module
VARIABLES
  pure        \* [fn, arg, out, done]: the function called, its arguments, and its result once done

vars == <<sessionVars, viewVars, pure>>

NullSummary == [kind |-> "null"]
EmptySummary == [kind |-> "empty"]

\* `${progress.matchCount} results in ${progress.duration}`
FormatSummary(progress) ==
  [kind |-> "text", matchCount |-> progress.matchCount, duration |-> progress.duration]

\* useState<SearchState>({ results: [], suggestions: [], summary: "", isLoading: false })
InitialState ==
  [results |-> <<>>, suggestions |-> <<>>, summary |-> EmptySummary, isLoading |-> FALSE]

\* ---------------------------------------------------------- stream inputs

\* A result delivered by the stream of generation g: query names the search that
\* produced it, url is SearchResult.url.
Result(g, u) == [query |-> g, url |-> u]

ResultBatches(g) == { <<Result(g, "a")>>, <<Result(g, "b"), Result(g, "a")>> }

SuggestionBatches == { <<"x">>, <<"y", "z">> }

Progresses == { [matchCount |-> 1, duration |-> "1ms"], [matchCount |-> 2, duration |-> "2ms"] }

Alerts == { [title |-> "timeout", description |-> ""] }

\* Failure details a rejected performSearch promise carries
Errors == { "network", "unauthorized" }

\* -------------------------------------------------------- setState updaters

\* lines 564-570
ResetFoldKeepsSuggestions(oldState) ==
  [oldState EXCEPT !.results = <<>>, !.summary = NullSummary, !.isLoading = TRUE]

ResetFold(oldState) ==
  [oldState EXCEPT !.results = <<>>, !.suggestions = <<>>,
                   !.summary = NullSummary, !.isLoading = TRUE]

\* lines 573-576
ResultsFoldPrepend(oldState, results) ==
  [oldState EXCEPT !.results = results \o oldState.results]

ResultsFold(oldState, results) ==
  [oldState EXCEPT !.results = oldState.results \o results]

\* lines 579-584
SuggestionsFoldAppendOnly(oldState, suggestions, pushToTop) ==
  [oldState EXCEPT !.suggestions = oldState.suggestions \o suggestions]

SuggestionsFoldSwapped(oldState, suggestions, pushToTop) ==
  [oldState EXCEPT !.suggestions =
     IF pushToTop THEN oldState.suggestions \o suggestions
                  ELSE suggestions \o oldState.suggestions]

SuggestionsFold(oldState, suggestions, pushToTop) ==
  [oldState EXCEPT !.suggestions =
     IF pushToTop THEN suggestions \o oldState.suggestions
                  ELSE oldState.suggestions \o suggestions]

\* lines 590-593
ProgressFoldDropsState(oldState, progress) ==
  [results |-> <<>>, suggestions |-> <<>>, summary |-> FormatSummary(progress),
   isLoading |-> oldState.isLoading]

ProgressFoldKeepFirst(oldState, progress) ==
  IF oldState.summary.kind = "null"
  THEN [oldState EXCEPT !.summary = FormatSummary(progress)]
  ELSE oldState

ProgressFold(oldState, progress) ==
  [oldState EXCEPT !.summary = FormatSummary(progress)]

\* lines 596-599
DoneFold(oldState) ==
  [oldState EXCEPT !.isLoading = FALSE]

\* lines 603-606
CatchFoldClears(oldState) ==
  [oldState EXCEPT !.isLoading = FALSE, !.results = <<>>, !.suggestions = <<>>]

CatchFoldKeepsLoading(oldState) ==
  oldState

CatchFold(oldState) ==
  [oldState EXCEPT !.isLoading = FALSE]

\* lines 563, 600: try { ... await performSearch ... } catch (error) { ... }
SearchOutcome(settled) == IF settled = "resolved" THEN "returned" ELSE "caught"

NoToast == [kind |-> "none", title |-> "", detail |-> ""]

\* line 587: ExpandableErrorToast(push, "Alert", alert.title, alert.description || "")
AlertToast(alert) ==
  [kind |-> "Alert", title |-> alert.title, detail |-> alert.description]

\* line 601: ExpandableErrorToast(push, "Unexpected error", "Search failed", String(error))
ErrorToast(error) ==
  [kind |-> "Unexpected error", title |-> "Search failed", detail |-> error]

\* --------------------------------------------------------- SearchCommand list

\* line 48: state.suggestions.slice(0, 3)
MaxShownSuggestions == 3

\* line 46: !state.isLoading && state.results.length === 0
SuggestionsSectionShown(st) == ~st.isLoading /\ Len(st.results) = 0

\* line 48: the suggestions listed in the section
ShownSuggestions(st) ==
  SubSeq(st.suggestions, 1,
         IF Len(st.suggestions) < MaxShownSuggestions
         THEN Len(st.suggestions) ELSE MaxShownSuggestions)

\* lines 35-94: what SearchCommand renders from the session state
SearchCommandRender(st) ==
  [isLoading |-> st.isLoading,
   suggestionsSection |-> SuggestionsSectionShown(st),
   suggestionItems |-> IF SuggestionsSectionShown(st) THEN ShownSuggestions(st) ELSE <<>>,
   resultItems |-> st.results,
   subtitle |-> IF st.summary.kind = "text" THEN st.summary ELSE EmptySummary]

\* ------------------------------------------------------------------ search()

SessionInit ==
  /\ state = InitialState
  /\ cancelRef = 0
  /\ aborted = {}
  /\ pc = "idle"
  /\ stream = [g \in Gens |-> "none"]
  /\ call = [g \in Gens |-> "none"]
  /\ reason = [g \in Gens |-> ""]
  /\ toast = NoToast
  /\ nToasts = 0
  /\ log = <<>>
  /\ resets = [g \in Gens |-> 0]
  /\ nEvents = 0

\* line 560: cancelRef.current?.abort(), with ref the generation cancelRef holds
\* (0 for null) and ab the generations aborted so far
AbortNothing(ref, ab) == ab

AbortPrevious(ref, ab) == IF ref = 0 THEN ab ELSE ab \cup {ref}

\* line 560
SearchAbort ==
  /\ pc = "idle"
  /\ cancelRef < MaxSearches
  /\ aborted' = AbortPrevious(cancelRef, aborted)
  /\ pc' = "new"
  /\ UNCHANGED <<state, cancelRef, stream, call, reason, toast, nToasts, log, resets, nEvents>>
  /\ UNCHANGED <<viewVars, pure>>

\* line 561: cancelRef.current = new AbortController()
SearchNewController ==
  /\ pc = "new"
  /\ cancelRef' = cancelRef + 1
  /\ pc' = "reset"
  /\ UNCHANGED <<state, aborted, stream, call, reason, toast, nToasts, log, resets, nEvents>>
  /\ UNCHANGED <<viewVars, pure>>

\* lines 564-570: the reset updater
SearchReset ==
  /\ pc = "reset"
  /\ state' = ResetFold(state)
  /\ log' = <<>>
  /\ resets' = [resets EXCEPT ![cancelRef] = @ + 1]
  /\ pc' = "perform"
  /\ UNCHANGED <<cancelRef, aborted, stream, call, reason, toast, nToasts, nEvents>>
  /\ UNCHANGED <<viewVars, pure>>

\* line 571: performSearch(cancelRef.current.signal, ...) is called and awaited
SearchPerform ==
  /\ pc = "perform"
  /\ stream' = [stream EXCEPT ![cancelRef] = "open"]
  /\ call' = [call EXCEPT ![cancelRef] = "awaiting"]
  /\ pc' = "idle"
  /\ UNCHANGED <<state, cancelRef, aborted, reason, toast, nToasts, log, resets, nEvents>>
  /\ UNCHANGED <<viewVars, pure>>

\* ---------------------------------------------------------- stream callbacks

\* The transport delivers an event of generation g's stream.  Aborting the token
\* asks the transport to stop; events it had already queued may still arrive, so
\* an aborted stream that has not settled can still deliver.
CanDeliver(g) ==
  /\ pc = "idle"
  /\ stream[g] = "open"
  /\ nEvents < MaxEvents

Delivered(g, ev) ==
  /\ log' = Append(log, ev)
  /\ nEvents' = nEvents + 1

\* lines 572-577
OnResults(g) ==
  \E batch \in ResultBatches(g) :
    /\ CanDeliver(g)
    /\ state' = ResultsFold(state, batch)
    /\ Delivered(g, [kind |-> "results", gen |-> g, batch |-> batch, pushToTop |-> FALSE])
    /\ UNCHANGED <<cancelRef, aborted, pc, stream, call, reason, toast, nToasts, resets>>
    /\ UNCHANGED <<viewVars, pure>>

\* lines 578-585
OnSuggestions(g) ==
  \E batch \in SuggestionBatches, pushToTop \in BOOLEAN :
    /\ CanDeliver(g)
    /\ state' = SuggestionsFold(state, batch, pushToTop)
    /\ Delivered(g, [kind |-> "suggestions", gen |-> g, batch |-> batch, pushToTop |-> pushToTop])
    /\ UNCHANGED <<cancelRef, aborted, pc, stream, call, reason, toast, nToasts, resets>>
    /\ UNCHANGED <<viewVars, pure>>

\* lines 586-588
OnAlert(g) ==
  \E alert \in Alerts :
    /\ CanDeliver(g)
    /\ toast' = AlertToast(alert)
    /\ nToasts' = nToasts + 1
    /\ Delivered(g, [kind |-> "alert", gen |-> g, batch |-> <<>>, pushToTop |-> FALSE])
    /\ UNCHANGED <<state, cancelRef, aborted, pc, stream, call, reason, resets>>
    /\ UNCHANGED <<viewVars, pure>>

\* lines 589-594
OnProgress(g) ==
  \E progress \in Progresses :
    /\ CanDeliver(g)
    /\ state' = ProgressFold(state, progress)
    /\ Delivered(g, [kind |-> "progress", gen |-> g, batch |-> <<progress>>, pushToTop |-> FALSE])
    /\ UNCHANGED <<cancelRef, aborted, pc, stream, call, reason, toast, nToasts, resets>>
    /\ UNCHANGED <<viewVars, pure>>

\* ------------------------------------------------------- stream termination

\* The transport settles the promise of generation g once, aborted or not.
CanSettle(g) ==
  /\ pc = "idle"
  /\ stream[g] = "open"

\* The performSearch promise of generation g resolves and search() resumes after
\* the await: lines 596-599.  The continuation is a microtask of the settlement.
StreamDone(g) ==
  /\ CanSettle(g)
  /\ stream' = [stream EXCEPT ![g] = "resolved"]
  /\ call' = [call EXCEPT ![g] = SearchOutcome("resolved")]
  /\ state' = DoneFold(state)
  /\ UNCHANGED <<cancelRef, aborted, pc, reason, toast, nToasts, log, resets, nEvents>>
  /\ UNCHANGED <<viewVars, pure>>

\* The performSearch promise of generation g rejects and the catch block runs:
\* lines 600-607.
StreamFail(g) ==
  \E error \in Errors :
    /\ CanSettle(g)
    /\ stream' = [stream EXCEPT ![g] = "rejected"]
    /\ call' = [call EXCEPT ![g] = SearchOutcome("rejected")]
    /\ toast' = ErrorToast(error)
    /\ nToasts' = nToasts + 1
    /\ state' = CatchFold(state)
    /\ reason' = [reason EXCEPT ![g] = error]
    /\ UNCHANGED <<cancelRef, aborted, pc, log, resets, nEvents>>
    /\ UNCHANGED <<viewVars, pure>>

\* --------------------------------------------------------------- detail view

\* Text is a sequence of one-character strings.
EndsWith(text, suffix) ==
  /\ Len(text) >= Len(suffix)
  /\ SubSeq(text, Len(text) - Len(suffix) + 1, Len(text)) = suffix

MdSuffix == <<".", "m", "d">>

ReadmePath == <<"R", ".", "m", "d">>

\* ------------------------------------------------------------ strings, URLs

\* Strings whose characters matter are sequences of one-character strings.
\* The characters used, in the order of their UTF-16 code units
CodeUnitOrder ==
  <<"0", "1", "2", "3", "4", "5", "6", "7", "8", "9", "A", "L", "U", "_", "a", "c", "e", "m",
    "o", "q", "r", "s", "t", "u">>

Rank(c) == CHOOSE i \in 1..Len(CodeUnitOrder) : CodeUnitOrder[i] = c

\* a < b as the sort of URLSearchParams compares names: by code units
RECURSIVE NameLess(_, _)
NameLess(a, b) ==
  IF b = <<>> THEN FALSE
  ELSE IF a = <<>> THEN TRUE
  ELSE IF Head(a) = Head(b) THEN NameLess(Tail(a), Tail(b))
  ELSE Rank(Head(a)) < Rank(Head(b))

\* the elements of a sequence of sequences, one after the other
RECURSIVE Flatten(_)
Flatten(seqs) == IF seqs = <<>> THEN <<>> ELSE Head(seqs) \o Flatten(Tail(seqs))

\* Array.prototype.join
RECURSIVE Join(_, _)
Join(parts, sep) ==
  IF parts = <<>> THEN <<>>
  ELSE IF Len(parts) = 1 THEN parts[1]
  ELSE parts[1] \o sep \o Join(Tail(parts), sep)

\* `${line}`: the decimal digits of a number
RECURSIVE ToDigits(_)
ToDigits(n) ==
  IF n < 10 THEN <<CodeUnitOrder[n + 1]>>
  ELSE ToDigits(n \div 10) \o <<CodeUnitOrder[(n % 10) + 1]>>

\* URLSearchParams.set(name, value): the first pair named name gets the value and
\* the other pairs of that name are removed; without such a pair one is appended
SetParam(query, name, value) ==
  IF \E i \in 1..Len(query) : query[i].name = name
  THEN LET first == CHOOSE i \in 1..Len(query) :
                      /\ query[i].name = name
                      /\ \A j \in 1..(i - 1) : query[j].name # name
           keep(i) == i = first \/ query[i].name # name
       IN Flatten([i \in 1..Len(query) |->
                     IF ~keep(i) THEN <<>>
                     ELSE IF i = first THEN <<[name |-> name, value |-> value]>>
                     ELSE <<query[i]>>])
  ELSE Append(query, [name |-> name, value |-> value])

\* URLSearchParams.sort(): a stable sort of the pairs by name
RECURSIVE InsertParam(_, _)
InsertParam(sorted, p) ==
  IF sorted = <<>> THEN <<p>>
  ELSE IF NameLess(p.name, Head(sorted).name) THEN <<p>> \o sorted
  ELSE <<Head(sorted)>> \o InsertParam(Tail(sorted), p)

RECURSIVE SortParams(_)
SortParams(query) ==
  IF query = <<>> THEN <<>>
  ELSE InsertParam(SortParams(SubSeq(query, 1, Len(query) - 1)), query[Len(query)])

\* lines 319-326; a URL is [base, query], query the sequence of its [name, value] pairs
urlWithLineNumber(url, line) ==
  [url EXCEPT !.query = SortParams(SetParam(url.query, <<"L">> \o ToDigits(line), ""))]

\* line 162: the characters of the class of regexpRe
MetacharsWithSlash ==
  {"-", "\\", "^", "$", "*", "+", "?", ".", "(", ")", "|", "[", "]", "{", "}", "/"}

Metachars == {"-", "\\", "^", "$", "*", "+", "?", ".", "(", ")", "|", "[", "]", "{", "}"}

\* lines 164-166: text.replace(regexpRe, "\\$&")
RECURSIVE escapeRegexp(_)
escapeRegexp(text) ==
  IF text = <<>> THEN <<>>
  ELSE (IF Head(text) \in Metachars THEN <<"\\", Head(text)>> ELSE <<Head(text)>>)
       \o escapeRegexp(Tail(text))

\* lines 173-184: the clauses; an option that is absent or "" is <<>>
DrilldownClauses(opts) ==
  (IF opts.repo # <<>>
   THEN << <<"r", ":", "^">> \o escapeRegexp(opts.repo) \o <<"$">>
           \o (IF opts.revision # <<>> THEN <<"@">> \o opts.revision ELSE <<>>) >>
   ELSE <<>>)
  \o (IF opts.file # <<>> THEN << <<"f", ":">> \o escapeRegexp(opts.file) >> ELSE <<>>)

\* lines 168-196: what the action hands to setSearchText
makeDrilldownAction(opts) ==
  [clauses |-> Join(DrilldownClauses(opts), <<" ">>),
   searchText |-> Join(DrilldownClauses(opts), <<" ">>) \o <<" ">>]

\* String.prototype.trim
Whitespace == {" ", "\t", "\n"}

RECURSIVE TrimStart(_)
TrimStart(text) ==
  IF text # <<>> /\ Head(text) \in Whitespace THEN TrimStart(Tail(text)) ELSE text

RECURSIVE TrimEnd(_)
TrimEnd(text) ==
  IF text # <<>> /\ text[Len(text)] \in Whitespace
  THEN TrimEnd(SubSeq(text, 1, Len(text) - 1)) ELSE text

TrimLeadingOnly(text) == TrimStart(text)

Trim(text) == TrimEnd(TrimStart(text))

\* lines 211-278: title, subtitle and drilldown of a result's list item
SearchResultItem(match) ==
  CASE match.type = "repo" ->
         [title |-> match.repository, subtitle |-> match.description,
          drilldown |-> [name |-> "Search Repository", repo |-> match.repository,
                         revision |-> "", file |-> <<>>]]
    [] match.type = "commit" ->
         [title |-> match.message, subtitle |-> match.authorDate,
          drilldown |-> [name |-> "Search Revision", repo |-> match.repository,
                         revision |-> match.oid, file |-> <<>>]]
    [] match.type = "path" ->
         [title |-> match.path, subtitle |-> "",
          drilldown |-> [name |-> "Search File", repo |-> match.repository,
                         revision |-> "", file |-> match.path]]
    [] match.type = "content" ->
         [title |-> Join([i \in 1..Len(match.lineMatches) |-> Trim(match.lineMatches[i].line)],
                         <<" ", ".", ".", ".", " ">>),
          subtitle |-> match.path,
          drilldown |-> [name |-> "Search File", repo |-> match.repository,
                         revision |-> "", file |-> match.path]]
    [] match.type = "symbol" ->
         [title |-> Join([i \in 1..Len(match.symbols) |-> match.symbols[i].name], <<",", " ">>),
          subtitle |-> match.path,
          drilldown |-> [name |-> "Search File", repo |-> match.repository,
                         revision |-> "", file |-> match.path]]
    [] OTHER -> [title |-> "", subtitle |-> "", drilldown |-> [name |-> "none"]]

\* The matches a result can carry (stream.ts match variants); repoStars 0 is absent.
Matches ==
  { [type |-> "repo", repository |-> "r1", description |-> "", private |-> FALSE,
     branches |-> <<>>, repoStars |-> 0],
    [type |-> "repo", repository |-> "r2", description |-> "about", private |-> TRUE,
     branches |-> <<"dev">>, repoStars |-> 5],
    [type |-> "path", repository |-> "r1", path |-> <<"a", ".", "g", "o">>,
     commit |-> "c1", repoStars |-> 0],
    [type |-> "path", repository |-> "r2", path |-> ReadmePath,
     commit |-> "", repoStars |-> 5],
    [type |-> "commit", repository |-> "r1", message |-> "fix", authorName |-> "n",
     authorDate |-> "d", oid |-> "o1", repoStars |-> 0],
    [type |-> "content", repository |-> "r1", path |-> <<"a", ".", "g", "o">>,
     lineMatches |-> <<[line |-> <<" ", "x", " ", "y", " ">>, lineNumber |-> 3],
                       [line |-> <<"\t", "z">>, lineNumber |-> 10]>>, repoStars |-> 0],
    [type |-> "content", repository |-> "r2", path |-> ReadmePath,
     lineMatches |-> <<[line |-> <<"x", " ">>, lineNumber |-> 1]>>, repoStars |-> 5],
    [type |-> "symbol", repository |-> "r1", path |-> <<"a", ".", "g", "o">>,
     symbols |-> <<[name |-> <<"f">>, containerName |-> "p", kind |-> "FUNCTION", url |-> "u1"],
                   [name |-> <<"g", "2">>, containerName |-> "p", kind |-> "FUNCTION", url |-> "u2"]>>,
     repoStars |-> 0] }

NoBlob == [found |-> FALSE]

\* What a GetFileContents query can return as repository?.commit?.blob
Blobs ==
  { NoBlob,
    [found |-> TRUE, binary |-> TRUE, content |-> "bytes", byteSize |-> 2048,
     path |-> <<"a", ".", "g", "o">>],
    [found |-> TRUE, binary |-> FALSE, content |-> "text", byteSize |-> 61440,
     path |-> <<"a", ".", "g", "o">>],
    [found |-> TRUE, binary |-> FALSE, content |-> "text", byteSize |-> 512,
     path |-> <<"a", ".", "g", "o">>],
    [found |-> TRUE, binary |-> FALSE, content |-> "text", byteSize |-> 512,
     path |-> ReadmePath],
    [found |-> TRUE, binary |-> FALSE, content |-> "", byteSize |-> 0,
     path |-> ReadmePath],
    [found |-> TRUE, binary |-> FALSE, content |-> "", byteSize |-> 0,
     path |-> <<"a", ".", "g", "o">>],
    [found |-> TRUE, binary |-> TRUE, content |-> "bytes", byteSize |-> 61440,
     path |-> ReadmePath],
    [found |-> TRUE, binary |-> FALSE, content |-> "text", byteSize |-> 51200,
     path |-> <<"a", ".", "g", "o">>],
    [found |-> TRUE, binary |-> FALSE, content |-> "text", byteSize |-> 51201,
     path |-> ReadmePath] }

FetchErrors == { "timeout" }

\* markdown.ts helpers: a rendered document is a sequence of segments
Quote(text) == [seg |-> "quote", text |-> text, size |-> <<>>]
Code(text) == [seg |-> "code", text |-> text, size |-> <<>>]
Bold(text) == [seg |-> "bold", text |-> text, size |-> <<>>]
Plain(text) == [seg |-> "plain", text |-> text, size |-> <<>>]
Rule == [seg |-> "rule", text |-> "---", size |-> <<>>]

\* line 377: blob.byteSize / 1024, a floating-point quotient: whole part and remainder
SizeKB(byteSize) == <<byteSize \div 1024, byteSize % 1024>>

\* line 378: blobSizeKB > 50
TooLargeInclusive(byteSize) == byteSize >= 50 * 1024

TooLarge(byteSize) == byteSize > 50 * 1024

\* lines 368-386
renderBlob(blob) ==
  IF ~blob.found THEN <<Quote("Blob not found")>>
  ELSE IF blob.binary THEN <<Quote("File preview is not yet supported for binary files.")>>
  ELSE IF blob.content # "" THEN
    IF TooLarge(blob.byteSize)
    THEN <<[seg |-> "quote", text |-> "File too large to render", size |-> SizeKB(blob.byteSize)]>>
    ELSE IF EndsWith(blob.path, MdSuffix) THEN <<Plain(blob.content)>>
    ELSE <<Code(blob.content)>>
  ELSE <<Quote("No content found")>>

\* A useLazyQuery result before getFileContents is called
IdleQuery == [called |-> FALSE, status |-> "idle", blob |-> NoBlob, error |-> ""]

\* lines 431, 447: if (!fileContents.called)
ShouldFetchUntilData(fc) == fc.status # "data"

ShouldFetch(fc) == ~fc.called

\* lines 426-443: case "repo"
RepoContent(match, fc) ==
  (IF match.description = "" THEN <<>> ELSE <<Plain(match.description)>>)
  \o (IF ~ShouldFetch(fc) /\ fc.status = "data"
      THEN <<Rule>> \o renderBlob(fc.blob) ELSE <<>>)

\* lines 445-461: case "path"
PathContent(match, fc) ==
  <<Code(match.path), Rule>>
  \o (IF ShouldFetch(fc) THEN <<>>
      ELSE IF fc.status = "data" THEN renderBlob(fc.blob)
      ELSE IF fc.status = "error"
           THEN <<[seg |-> "quote", text |-> "Failed to fetch file", size |-> <<fc.error>>]>>
      ELSE <<>>)

\* lines 405-415, 429, 466-473, 481-483: the metadata labels
Metadata(match) ==
  <<"Match type", "Repository">>
  \o (IF match.type = "repo" THEN <<"Visibility">>
      ELSE IF match.type = "commit" THEN <<"Author", "Commit", "Committed">> ELSE <<>>)
  \o (IF match.repoStars # 0 THEN <<"Stars">> ELSE <<>>)

UtmSource == <<"u", "t", "m", "_", "s", "o", "u", "r", "c", "e">>

\* The url of the search result whose match is item
SearchResultUrl ==
  [base |-> "https://sourcegraph.com/r1/-/blob/a.go",
   query |-> <<[name |-> UtmSource, value |-> "raycast"]>>]

\* lines 328-362: the sub-items of MultiResultView, one per line match or symbol
MultiResultItems(match) ==
  IF match.type = "content"
  THEN [i \in 1..Len(match.lineMatches) |->
          [title |-> match.lineMatches[i].line,
           accessory |-> <<"L">> \o ToDigits(match.lineMatches[i].lineNumber),
           url |-> urlWithLineNumber(SearchResultUrl, match.lineMatches[i].lineNumber)]]
  ELSE IF match.type = "symbol"
  THEN [i \in 1..Len(match.symbols) |->
          [title |-> match.symbols[i].name,
           accessory |-> match.symbols[i].kind,
           url |-> match.symbols[i].url]]
  ELSE <<>>

\* lines 418-420: the match types with the multi-result view
MultiKindsContentOnly == {"content"}

MultiKinds == {"content", "symbol"}

\* lines 388-493: one render of ResultView.  fetch says whether it called
\* getFileContents, variables with what.
ResultViewRender(match, fc) ==
  IF match.type \in MultiKinds
  THEN [view |-> "Multi", markdown |-> <<>>, metadata |-> <<>>, fetch |-> FALSE,
        variables |-> <<>>, items |-> MultiResultItems(match)]
  ELSE
    [view |-> "Detail", items |-> <<>>,
     markdown |-> <<Bold(match.repository)>> \o
        (CASE match.type = "repo" -> RepoContent(match, fc)
           [] match.type = "path" -> PathContent(match, fc)
           [] match.type = "commit" -> <<Plain(match.message)>>
           [] OTHER -> <<Plain("Unsupported result type - full data:"), Code("json")>>),
     metadata |-> Metadata(match),
     fetch |-> match.type \in {"repo", "path"} /\ ShouldFetch(fc),
     variables |->
        CASE match.type = "repo" ->
               <<match.repository,
                 IF Len(match.branches) > 0 THEN match.branches[1] ELSE "", ReadmePath>>
          [] match.type = "path" -> <<match.repository, match.commit, match.path>>
          [] OTHER -> <<>>]

\* getFileContents(...) marks the query called and loading
Loading(fc) == [fc EXCEPT !.called = TRUE, !.status = "loading"]

\* The query after the render r of an instance holding fc
AfterRender(r, fc) == IF r.fetch THEN Loading(fc) ELSE fc

NotRendered == [view |-> "none", markdown |-> <<>>, metadata |-> <<>>, fetch |-> FALSE,
                variables |-> <<>>, items |-> <<>>]

\* React renders instance inst, which holds fc, and renders it again when that
\* render changed the query's state.
RenderInstance(fc, inst) ==
  LET r == ResultViewRender(item, fc) IN
  /\ fileContents' = AfterRender(r, fc)
  /\ rendered' = IF r.fetch THEN ResultViewRender(item, AfterRender(r, fc)) ELSE r
  /\ fetches' = IF r.fetch THEN [fetches EXCEPT ![inst] = @ + 1] ELSE fetches

\* lines 295-300: Action.Push mounts a new ResultView for the result
ViewPush ==
  /\ ~mounted
  /\ mounts < MaxMounts
  /\ mounted' = TRUE
  /\ mounts' = mounts + 1
  /\ RenderInstance(IdleQuery, mounts + 1)
  /\ UNCHANGED <<item, sessionVars, pure>>

\* The host re-renders the mounted view
ViewRerender ==
  /\ mounted
  /\ RenderInstance(fileContents, mounts)
  /\ UNCHANGED <<item, mounted, mounts, sessionVars, pure>>

\* The query returns data and the view renders with it
FetchData ==
  \E blob \in Blobs :
    /\ mounted
    /\ fileContents.status = "loading"
    /\ RenderInstance([fileContents EXCEPT !.status = "data", !.blob = blob], mounts)
    /\ UNCHANGED <<item, mounted, mounts, sessionVars, pure>>

\* The query fails and the view renders with the error
FetchError ==
  \E error \in FetchErrors :
    /\ mounted
    /\ fileContents.status = "loading"
    /\ RenderInstance([fileContents EXCEPT !.status = "error", !.error = error], mounts)
    /\ UNCHANGED <<item, mounted, mounts, sessionVars, pure>>

\* The user leaves the view: the host pops and unmounts it, its hooks are dropped
ViewPop ==
  /\ mounted
  /\ mounted' = FALSE
  /\ fileContents' = IdleQuery
  /\ rendered' = NotRendered
  /\ UNCHANGED <<item, mounts, fetches, sessionVars, pure>>

ViewIdle ==
  /\ mounted = FALSE
  /\ mounts = 0
  /\ fileContents = IdleQuery
  /\ rendered = NotRendered
  /\ fetches = [i \in 1..MaxMounts |-> 0]

\* --------------------------------------------------------- helper functions

NoCall == [fn |-> "none", arg |-> <<>>, out |-> <<>>, done |-> FALSE]

\* line numbers of line matches
MaxLine == 12

\* Queries a parent result URL can carry
ParentQueries ==
  { <<>>,
    <<[name |-> UtmSource, value |-> "raycast"]>>,
    <<[name |-> <<"A">>, value |-> "1"]>>,
    <<[name |-> <<"L", "1", "0">>, value |-> ""]>>,
    <<[name |-> <<"L", "3">>, value |-> "x"], [name |-> <<"q">>, value |-> "1"],
      [name |-> <<"L", "3">>, value |-> "y"]>>,
    <<[name |-> <<"q">>, value |-> "2"], [name |-> UtmSource, value |-> "raycast"],
      [name |-> <<"q">>, value |-> "1"]>>,
    <<[name |-> <<"U">>, value |-> "1"], [name |-> <<"1">>, value |-> "1"]>> }

ParentUrls == { [base |-> "https://sourcegraph.com/r1/-/blob/a.go", query |-> q] : q \in ParentQueries }

\* The options of a drilldown: <<>> is an option that is absent or ""
DrilldownRepos ==
  { <<>>,
    <<"g", ".", "c", "/", "a", "-", "b">>,
    <<"c", "+", "+">>,
    <<"\\", "^", "$", "*", "?">>,
    <<"(", ")", "|", "[", "]", "{", "}">> }

DrilldownRevisions == { <<>>, <<"v", "1", ".", "0">> }

DrilldownFiles == { <<>>, <<"a", "/", "b", ".", "g", "o">>, <<"[", "x", "]", ".", "t", "s">> }

PureInit ==
  \/ \E url \in ParentUrls, line \in 1..MaxLine :
       pure = [fn |-> "urlWithLineNumber", arg |-> [url |-> url, line |-> line],
               out |-> <<>>, done |-> FALSE]
  \/ \E repo \in DrilldownRepos, revision \in DrilldownRevisions, file \in DrilldownFiles :
       pure = [fn |-> "makeDrilldownAction",
               arg |-> [repo |-> repo, revision |-> revision, file |-> file],
               out |-> <<>>, done |-> FALSE]
  \/ \E match \in Matches :
       pure = [fn |-> "SearchResultItem", arg |-> match, out |-> <<>>, done |-> FALSE]

\* lines 319-326, called from line 338
CallUrlWithLineNumber ==
  /\ pure.fn = "urlWithLineNumber" /\ ~pure.done
  /\ pure' = [pure EXCEPT !.out = urlWithLineNumber(pure.arg.url, pure.arg.line), !.done = TRUE]
  /\ UNCHANGED <<sessionVars, viewVars>>

\* lines 168-196, the action being triggered once made
CallMakeDrilldownAction ==
  /\ pure.fn = "makeDrilldownAction" /\ ~pure.done
  /\ pure' = [pure EXCEPT !.out = makeDrilldownAction(pure.arg), !.done = TRUE]
  /\ UNCHANGED <<sessionVars, viewVars>>

\* lines 198-312: a result of the list is rendered
RenderSearchResultItem ==
  /\ pure.fn = "SearchResultItem" /\ ~pure.done
  /\ pure' = [pure EXCEPT !.out = SearchResultItem(pure.arg), !.done = TRUE]
  /\ UNCHANGED <<sessionVars, viewVars>>

\* ------------------------------------------------------------ specifications

\* The search session
Init ==
  /\ SessionInit
  /\ item \in { m \in Matches : m.type = "commit" }
  /\ ViewIdle
  /\ pure = NoCall

Next ==
  \/ SearchAbort
  \/ SearchNewController
  \/ SearchReset
  \/ SearchPerform
  \/ \E g \in Gens : OnResults(g)
  \/ \E g \in Gens : OnSuggestions(g)
  \/ \E g \in Gens : OnAlert(g)
  \/ \E g \in Gens : OnProgress(g)
  \/ \E g \in Gens : StreamDone(g)
  \/ \E g \in Gens : StreamFail(g)

Spec == Init /\ [][Next]_vars

\* The detail view of one result of a finished search
ViewInit ==
  /\ state = [results |-> <<Result(1, "a")>>, suggestions |-> <<>>,
              summary |-> FormatSummary([matchCount |-> 1, duration |-> "1ms"]),
              isLoading |-> FALSE]
  /\ cancelRef = 1
  /\ aborted = {}
  /\ pc = "idle"
  /\ stream = [g \in Gens |-> IF g = 1 THEN "resolved" ELSE "none"]
  /\ call = [g \in Gens |-> IF g = 1 THEN "returned" ELSE "none"]
  /\ reason = [g \in Gens |-> ""]
  /\ toast = NoToast
  /\ nToasts = 0
  /\ log = <<[kind |-> "results", gen |-> 1, batch |-> <<Result(1, "a")>>, pushToTop |-> FALSE],
             [kind |-> "progress", gen |-> 1,
              batch |-> <<[matchCount |-> 1, duration |-> "1ms"]>>, pushToTop |-> FALSE]>>
  /\ resets = [g \in Gens |-> IF g = 1 THEN 1 ELSE 0]
  /\ nEvents = 2
  /\ item \in Matches
  /\ ViewIdle
  /\ pure = NoCall

ViewNext ==
  \/ ViewPush
  \/ ViewRerender
  \/ FetchData
  \/ FetchError
  \/ ViewPop

ViewSpec == ViewInit /\ [][ViewNext]_vars

\* One call of a helper function, on each of its inputs
HelperInit ==
  /\ SessionInit
  /\ item \in { m \in Matches : m.type = "commit" }
  /\ ViewIdle
  /\ PureInit

HelperNext ==
  \/ CallUrlWithLineNumber
  \/ CallMakeDrilldownAction
  \/ RenderSearchResultItem

PureSpec == HelperInit /\ [][HelperNext]_vars

\* ------------------------------------------------------------------ history

\* The events of kind k among evs, in arrival order
EventsOfKind(evs, k) == SelectSeq(evs, LAMBDA e : e.kind = k)

\* The suggestion events of one priority tier, in arrival order
TierEvents(evs, top) ==
  SelectSeq(evs, LAMBDA e : e.kind = "suggestions" /\ e.pushToTop = top)

RECURSIVE ConcatBatches(_)
\* The batches of evs concatenated in the order of evs
ConcatBatches(evs) ==
  IF evs = <<>> THEN <<>> ELSE Head(evs).batch \o ConcatBatches(Tail(evs))

RECURSIVE Reverse(_)
Reverse(seq) ==
  IF seq = <<>> THEN <<>> ELSE Append(Reverse(Tail(seq)), Head(seq))

\* The value the reset of a search() leaves
FreshState ==
  [results |-> <<>>, suggestions |-> <<>>, summary |-> NullSummary, isLoading |-> TRUE]

\* Generation g's stream settles in this step
Settles(g) == stream[g] = "open" /\ stream'[g] # "open"

\* An event was delivered in this step
Delivers == Len(log') = Len(log) + 1

\* ------------------------------------------------------------------- claims

\* C1: once the newest search() has reset the state, only events of its own
\* generation are folded: every result in results, and every result, suggestion
\* or progress event folded since the reset, belongs to the generation of cancelRef.
NoStaleWrite ==
  (cancelRef # 0 /\ resets[cancelRef] = 1) =>
    /\ \A i \in 1..Len(state.results) : state.results[i].query = cancelRef
    /\ \A i \in 1..Len(log) : log[i].kind # "alert" => log[i].gen = cancelRef

\* C2: when the stream of a generation whose token was aborted settles, the step
\* changes no field of SearchState and shows no notification.
CancelledTerminationSilent ==
  [][\A g \in Gens :
       (g \in aborted /\ Settles(g)) => (state' = state /\ nToasts' = nToasts /\ toast' = toast)]_vars

\* C3: results is the concatenation, in arrival order, of every batch passed to
\* onResults since the last reset: nothing dropped, reordered, sorted or merged.
ResultsAreConcatenation ==
  state.results = ConcatBatches(EventsOfKind(log, "results"))

\* C3 witness: two batches of the current generation that share a URL were folded,
\* and both copies remain.
TwoBatchesWithEqualUrl ==
  /\ pc = "idle"
  /\ Len(log) = 2
  /\ \A i \in 1..2 : log[i].kind = "results" /\ log[i].gen = cancelRef
  /\ state.results = <<Result(cancelRef, "a"), Result(cancelRef, "b"), Result(cancelRef, "a")>>

\* C4: every search() resets the state exactly once, the reset leaves results and
\* suggestions empty, summary null and isLoading true, it happens before the
\* invocation's stream is started, and an event of a generation is folded only
\* after that generation's reset.
ResetOnceBeforeEvents ==
  /\ [](\A g \in Gens :
          /\ resets[g] <= 1
          /\ (stream[g] # "none" => resets[g] = 1))
  /\ [][/\ \A g \in Gens :
             resets'[g] # resets[g] =>
               /\ resets[g] = 0
               /\ stream[g] = "none"
               /\ state' = FreshState
        /\ Delivers => resets[log'[Len(log')].gen] = 1]_vars

\* C4 witness: the second search() has reset the state the first had filled, and an
\* event of its own stream has been folded after that reset.
SecondSearchFoldedAfterReset ==
  /\ cancelRef = 2
  /\ resets[1] = 1 /\ resets[2] = 1
  /\ Len(log) = 1 /\ log[1].gen = 2
  /\ Len(state.results) > 0

\* C5: when the stream of the current, not aborted generation rejects, the step
\* sets isLoading to false, shows one "Unexpected error" notification carrying
\* the rejection's detail, and leaves results and suggestions as they were.
FailureKeepsPartialResults ==
  [][\A g \in Gens :
       (g = cancelRef /\ g \notin aborted /\ stream[g] = "open" /\ stream'[g] = "rejected") =>
         /\ state'.isLoading = FALSE
         /\ nToasts' = nToasts + 1
         /\ toast' = [kind |-> "Unexpected error", title |-> "Search failed", detail |-> reason'[g]]
         /\ reason'[g] \in Errors
         /\ state'.results = state.results
         /\ state'.suggestions = state.suggestions]_vars

\* C5 witness: the current generation failed after results and suggestions had
\* been folded, and they are still there.
FailedWithPartialResults ==
  /\ cancelRef # 0 /\ cancelRef \notin aborted
  /\ stream[cancelRef] = "rejected"
  /\ Len(state.results) > 0 /\ Len(state.suggestions) > 0
  /\ ~state.isLoading
  /\ toast = ErrorToast("unauthorized")

\* C6: while no search() runs and the most recent generation's stream has settled
\* (resolved or rejected), isLoading is false; every rejection is caught, so no
\* search() invocation ends by throwing.
LoadingClearedOnTermination ==
  /\ \A g \in Gens :
       /\ call[g] # "threw"
       /\ stream[g] = "rejected" => call[g] = "caught"
       /\ stream[g] = "resolved" => call[g] = "returned"
  /\ (pc = "idle" /\ cancelRef # 0 /\ stream[cancelRef] \in {"resolved", "rejected"}) =>
       state.isLoading = FALSE

\* C6 witness: the most recent of two generations failed after the older one had
\* resolved, and isLoading is false.
LatestFailedAndNotLoading ==
  /\ pc = "idle" /\ cancelRef = 2
  /\ stream[1] = "resolved" /\ stream[2] = "rejected"
  /\ call[2] = "caught"
  /\ ~state.isLoading

\* C7: an onSuggestions batch with pushToTop is placed before all suggestions
\* accumulated so far, one without after all of them.
PushToTopPlacement ==
  [][(Delivers /\ log'[Len(log')].kind = "suggestions") =>
       state'.suggestions =
         IF log'[Len(log')].pushToTop
         THEN log'[Len(log')].batch \o state.suggestions
         ELSE state.suggestions \o log'[Len(log')].batch]_vars

\* C7 witness: batch <<"x">> pushed to the top after batch2 <<"y", "z">> was
\* appended gives batch ++ batch2.
PushedAfterAppended ==
  /\ Len(log) = 2
  /\ log[1].kind = "suggestions" /\ ~log[1].pushToTop /\ log[1].batch = <<"y", "z">>
  /\ log[2].kind = "suggestions" /\ log[2].pushToTop /\ log[2].batch = <<"x">>
  /\ state.suggestions = <<"x", "y", "z">>

\* C8 as stated: when all suggestion batches folded since the reset are of one
\* tier, suggestions holds them in their order of arrival.
SameTierArrivalOrder ==
  (\E top \in BOOLEAN : TierEvents(log, top) = EventsOfKind(log, "suggestions")) =>
    state.suggestions = ConcatBatches(EventsOfKind(log, "suggestions"))

\* C8 as amended: suggestions holds the pushToTop batches latest first, each batch
\* in its own order, followed by the other batches in their order of arrival.
TierOrder ==
  state.suggestions =
    ConcatBatches(Reverse(TierEvents(log, TRUE))) \o ConcatBatches(TierEvents(log, FALSE))

\* C8 witness: two different pushToTop batches were folded; the later one is first.
TwoPushedBatches ==
  /\ Len(log) = 2
  /\ \A i \in 1..2 : log[i].kind = "suggestions" /\ log[i].pushToTop
  /\ log[1].batch = <<"x">> /\ log[2].batch = <<"y", "z">>
  /\ state.suggestions = <<"y", "z", "x">>

RECURSIVE SumTo(_, _)
\* f[1] + ... + f[n]
SumTo(f, n) == IF n = 0 THEN 0 ELSE f[n] + SumTo(f, n - 1)

\* C9 as stated: over re-renders and over leaving the detail view of an item and
\* opening it again, at most one file-content fetch is issued for the item.
FetchedOncePerItem ==
  SumTo(fetches, MaxMounts) <= 1

\* C9 as amended: each mounted instance of the detail view issues at most one
\* file-content fetch, however often it is rendered.
FetchedOncePerMount ==
  \A i \in 1..MaxMounts : fetches[i] <= 1

\* C9 witness: the view of a Repo or Path item was opened, left and opened again,
\* the second instance has its data and has been rendered with it, and each
\* instance fetched once.
ReopenedAndFetchedAgain ==
  /\ mounted /\ mounts = 2
  /\ item.type \in {"repo", "path"}
  /\ fileContents.status = "data"
  /\ fetches[1] = 1 /\ fetches[2] = 1

\* C10: when the fetch of a Repo or Path detail view has failed, the rendered
\* markdown holds the failure message with the error, after the rest of the view
\* (title, metadata).
FetchFailureShownInline ==
  (mounted /\ item.type \in {"repo", "path"} /\ fileContents.status = "error") =>
    /\ rendered.view = "Detail"
    /\ rendered.markdown[1] = Bold(item.repository)
    /\ Len(rendered.metadata) >= 2
    /\ \E i \in 1..Len(rendered.markdown) :
         /\ rendered.markdown[i].text = "Failed to fetch file"
         /\ rendered.markdown[i].size = <<fileContents.error>>

\* C11: a delivered event changes only its own field of SearchState: an alert
\* none (it only shows a notification), a progress event only summary, a result
\* batch only results, a suggestion batch only suggestions.
FoldsChangeOwnField ==
  [][Delivers =>
       /\ log'[Len(log')].kind = "alert" =>
            state' = state /\ nToasts' = nToasts + 1 /\ toast'.kind = "Alert"
       /\ log'[Len(log')].kind = "progress" =>
            state' = [state EXCEPT !.summary = state'.summary] /\ nToasts' = nToasts
       /\ log'[Len(log')].kind = "results" =>
            state' = [state EXCEPT !.results = state'.results] /\ nToasts' = nToasts
       /\ log'[Len(log')].kind = "suggestions" =>
            state' = [state EXCEPT !.suggestions = state'.suggestions] /\ nToasts' = nToasts]_vars

\* C11 witness: after a result batch was folded an alert was delivered; its
\* notification is shown and the results are still there.
AlertAfterResults ==
  /\ Len(log) = 2
  /\ log[1].kind = "results" /\ log[2].kind = "alert"
  /\ state.results = log[1].batch
  /\ toast.kind = "Alert"


\* C12: after the reset of the current search(), summary is null while no progress
\* event has been folded, and afterwards it is the text made of the counts of the
\* progress event folded last.
SummaryIsLatestProgress ==
  (cancelRef # 0 /\ resets[cancelRef] = 1) =>
    IF EventsOfKind(log, "progress") = <<>>
    THEN state.summary.kind = "null"
    ELSE /\ state.summary.kind = "text"
         /\ state.summary.matchCount =
              EventsOfKind(log, "progress")[Len(EventsOfKind(log, "progress"))].batch[1].matchCount
         /\ state.summary.duration =
              EventsOfKind(log, "progress")[Len(EventsOfKind(log, "progress"))].batch[1].duration

\* C12 witness: two different progress events were folded; summary shows the second.
SecondProgressWins ==
  /\ Len(log) = 2
  /\ log[1].kind = "progress" /\ log[1].batch[1].matchCount = 2
  /\ log[2].kind = "progress" /\ log[2].batch[1].matchCount = 1
  /\ state.summary.kind = "text" /\ state.summary.matchCount = 1
  /\ state.summary.duration = "1ms"

\* C18: whenever search() is not in the middle of its synchronous part, every
\* generation before the most recent one has been aborted and the most recent one
\* has not; and the step that resets the state, and the step that starts the new
\* stream, are taken only when all earlier generations are already aborted.
PreviousTokensAborted ==
  /\ [](pc = "idle" => aborted = 1..(cancelRef - 1))
  /\ [](pc # "new" => cancelRef \notin aborted)
  /\ [][(resets' # resets \/ \E g \in Gens : stream[g] = "none" /\ stream'[g] # "none")
          => aborted = 1..(cancelRef - 1)]_vars

\* C18 witness: a second search() was started while the first stream was open; the
\* first token is aborted, the second is not, and the second stream is running.
SecondSearchAbortedFirst ==
  /\ pc = "idle" /\ cancelRef = 2
  /\ aborted = {1}
  /\ resets[2] = 1 /\ stream[2] = "open"

\* C19: while the most recent generation's stream is started and not terminated,
\* isLoading is true.
LoadingWhileLatestStreamOpen ==
  (pc = "idle" /\ cancelRef # 0 /\ stream[cancelRef] = "open") => state.isLoading

\* C20: in every rendered state the Suggestions section is shown exactly when
\* results is empty, and it lists the first three accumulated suggestions at most.
SuggestionsShownIffNoResults ==
  pc = "idle" =>
    /\ SearchCommandRender(state).suggestionsSection <=> (Len(state.results) = 0)
    /\ Len(SearchCommandRender(state).suggestionItems) <= MaxShownSuggestions
    /\ SearchCommandRender(state).suggestionsSection =>
         \A i \in 1..Len(SearchCommandRender(state).suggestionItems) :
            SearchCommandRender(state).suggestionItems[i] = state.suggestions[i]

\* C20, the part the code keeps: the section is shown exactly when the search is
\* not loading and results is empty, with the first three suggestions at most.
SuggestionsShownWhenIdleAndEmpty ==
  pc = "idle" =>
    /\ SearchCommandRender(state).suggestionsSection <=>
         (~state.isLoading /\ Len(state.results) = 0)
    /\ Len(SearchCommandRender(state).suggestionItems) <= MaxShownSuggestions

\* C20: a search that is loading, has no result yet and already has suggestions.
LoadingWithSuggestionsOnly ==
  /\ pc = "idle" /\ state.isLoading
  /\ Len(state.results) = 0 /\ Len(state.suggestions) > MaxShownSuggestions
  /\ ~SearchCommandRender(state).suggestionsSection

\* The part of a rendered repo or path document that renderBlob produced: what
\* follows the title, the description or path line, and the rule
RenderedBlob ==
  SubSeq(rendered.markdown,
         IF item.type = "path" THEN 4
         ELSE IF item.description = "" THEN 3 ELSE 4,
         Len(rendered.markdown))

\* The view shows a fetched blob
ShowsFetchedBlob ==
  mounted /\ item.type \in {"repo", "path"} /\ fileContents.status = "data"

\* The blob is above 50KB: byteSize / 1024 > 50
Above50KB(blob) ==
  blob.byteSize \div 1024 > 50 \/ (blob.byteSize \div 1024 = 50 /\ blob.byteSize % 1024 > 0)

\* The rendering policy applied to out, the rendering of blob; emptyNotice says
\* whether a non-binary blob with empty content gets the "No content found" notice
FollowsPolicy(blob, out, emptyNotice) ==
  IF ~blob.found THEN out = <<Quote("Blob not found")>>
  ELSE IF blob.binary
    THEN out = <<Quote("File preview is not yet supported for binary files.")>>
  ELSE IF emptyNotice /\ blob.content = "" THEN out = <<Quote("No content found")>>
  ELSE IF Above50KB(blob)
    THEN /\ Len(out) = 1
         /\ out[1].seg = "quote" /\ out[1].text = "File too large to render"
         /\ out[1].size = <<blob.byteSize \div 1024, blob.byteSize % 1024>>
  ELSE IF EndsWith(blob.path, MdSuffix) THEN out = <<Plain(blob.content)>>
  ELSE out = <<Code(blob.content)>>

\* C13: every fetched blob is rendered by the policy, in this precedence: absent
\* gives the "not found" notice, binary is never rendered, above 50KB gives the
\* "too large" notice with the size, otherwise ".md" content is returned as-is and
\* other text is wrapped as a code block.
BlobRenderingPolicy ==
  ShowsFetchedBlob => FollowsPolicy(fileContents.blob, RenderedBlob, FALSE)

\* C13 amended: as above, and a non-binary blob whose content is empty gives the
\* "No content found" notice, whatever its path.
BlobRenderingPolicyWithEmpty ==
  ShowsFetchedBlob => FollowsPolicy(fileContents.blob, RenderedBlob, TRUE)

\* C13 witness: a 60KB text file fetched for a path match is shown as the "too
\* large" notice with 60 as its size.
SixtyKBFileTooLarge ==
  /\ ShowsFetchedBlob /\ item.type = "path"
  /\ fileContents.blob.found /\ ~fileContents.blob.binary
  /\ fileContents.blob.byteSize = 61440
  /\ RenderedBlob = <<[seg |-> "quote", text |-> "File too large to render", size |-> <<60, 0>>]>>

\* C14: the URL derived for a line number carries the anchor parameter L<n>, and
\* that parameter is the first of its query parameters, whatever parameters the
\* parent URL carries.
AnchorParamFirst ==
  (pure.fn = "urlWithLineNumber" /\ pure.done) =>
    /\ Len(pure.out.query) >= 1
    /\ pure.out.query[1].name = <<"L">> \o ToDigits(pure.arg.line)

\* C14, the part that holds: the derived URL carries the anchor parameter exactly
\* once, with an empty value, and every other parameter of the parent URL.
AnchorParamPresent ==
  (pure.fn = "urlWithLineNumber" /\ pure.done) =>
    /\ Cardinality({i \in 1..Len(pure.out.query) :
                      pure.out.query[i].name = <<"L">> \o ToDigits(pure.arg.line)}) = 1
    /\ \A i \in 1..Len(pure.out.query) :
         pure.out.query[i].name = <<"L">> \o ToDigits(pure.arg.line) => pure.out.query[i].value = ""
    /\ \A i \in 1..Len(pure.arg.url.query) :
         \E j \in 1..Len(pure.out.query) : pure.out.query[j].name = pure.arg.url.query[i].name

\* C14: the anchor L3 derived for a parent URL that carries the parameter A
AnchorAfterOtherParam ==
  /\ pure.fn = "urlWithLineNumber" /\ pure.done
  /\ pure.arg.line = 3
  /\ pure.out.query = <<[name |-> <<"A">>, value |-> "1"], [name |-> <<"L", "3">>, value |-> ""]>>

\* The characters the escaping prefixes with a backslash
EscapedChars == {"-", "\\", "^", "$", "*", "+", "?", ".", "(", ")", "|", "[", "]", "{", "}"}

\* text with each of EscapedChars prefixed by one backslash, the rest unchanged
Escaped(text) ==
  Flatten([i \in 1..Len(text) |->
             IF text[i] \in EscapedChars THEN <<"\\", text[i]>> ELSE <<text[i]>>])

\* C15: the drilldown clause string is r:^<escaped repo>$ when repo is present,
\* with @<revision> appended verbatim when revision is present, then f:<escaped
\* file> when file is present, the two separated by exactly one space; escaping
\* prefixes each metacharacter with one backslash and leaves "/" and every other
\* character unchanged.
DrilldownClauseString ==
  (pure.fn = "makeDrilldownAction" /\ pure.done) =>
    LET repoClause == <<"r", ":", "^">> \o Escaped(pure.arg.repo) \o <<"$">>
                      \o (IF pure.arg.revision = <<>> THEN <<>>
                          ELSE <<"@">> \o pure.arg.revision)
        fileClause == <<"f", ":">> \o Escaped(pure.arg.file)
    IN /\ pure.out.clauses =
            IF pure.arg.repo # <<>> /\ pure.arg.file # <<>>
              THEN repoClause \o <<" ">> \o fileClause
            ELSE IF pure.arg.repo # <<>> THEN repoClause
            ELSE IF pure.arg.file # <<>> THEN fileClause
            ELSE <<>>
       /\ pure.out.searchText = pure.out.clauses \o <<" ">>

\* C15 witness: repo "g.c/a-b" at revision "v1.0" with file "a/b.go" gives
\* r:^g\.c/a\-b$@v1.0 f:a/b\.go
DrilldownOfRepoRevisionFile ==
  /\ pure.fn = "makeDrilldownAction" /\ pure.done
  /\ pure.arg.revision # <<>>
  /\ pure.out.clauses =
       <<"r", ":", "^", "g", "\\", ".", "c", "/", "a", "\\", "-", "b", "$",
         "@", "v", "1", ".", "0", " ",
         "f", ":", "a", "/", "b", "\\", ".", "g", "o">>

\* C16: a mounted view of a content or symbol match is the Multi view, with one
\* sub-item per line match or per symbol; of a repo, commit or path match it is
\* the Markdown view; none of these reaches the "Unsupported result type" branch.
DetailViewKindTotal ==
  mounted =>
    /\ item.type \in {"content", "symbol", "repo", "commit", "path"}
    /\ item.type = "content" =>
         /\ rendered.view = "Multi"
         /\ Len(rendered.items) = Len(item.lineMatches)
         /\ \A i \in 1..Len(rendered.items) : rendered.items[i].title = item.lineMatches[i].line
    /\ item.type = "symbol" =>
         /\ rendered.view = "Multi"
         /\ Len(rendered.items) = Len(item.symbols)
         /\ \A i \in 1..Len(rendered.items) : rendered.items[i].url = item.symbols[i].url
    /\ item.type \in {"repo", "commit", "path"} =>
         /\ rendered.view = "Detail"
         /\ rendered.items = <<>>
         /\ Len(rendered.markdown) >= 1
         /\ \A i \in 1..Len(rendered.markdown) :
              rendered.markdown[i].text # "Unsupported result type - full data:"

\* C16 witness: the view of a symbol match with two symbols is open
SymbolMatchOpensMulti ==
  /\ mounted /\ item.type = "symbol"
  /\ rendered.view = "Multi" /\ Len(rendered.items) = 2
  /\ rendered.items[2].url = "u2"

\* text without its leading and trailing whitespace, by positions
Trimmed(text) ==
  LET inked == {i \in 1..Len(text) : text[i] \notin {" ", "\t", "\n"}}
  IN IF inked = {} THEN <<>>
     ELSE SubSeq(text, CHOOSE i \in inked : \A j \in inked : i <= j,
                       CHOOSE i \in inked : \A j \in inked : j <= i)

\* parts with sep between every two neighbours
Interleaved(parts, sep) ==
  Flatten([i \in 1..(2 * Len(parts) - 1) |-> IF i % 2 = 1 THEN parts[(i + 1) \div 2] ELSE sep])

\* C17: the list item of a match has the title and subtitle of its variant's rule:
\* repo: repository / description or empty; commit: message / author date; path:
\* path / none; content: the trimmed lines joined by " ... " / path; symbol: the
\* symbol names joined by ", " / path; and no variant takes the default branch.
ItemTitleAndSubtitle ==
  (pure.fn = "SearchResultItem" /\ pure.done) =>
    /\ pure.arg.type \in {"repo", "commit", "path", "content", "symbol"}
    /\ pure.out.drilldown.name # "none"
    /\ pure.arg.type = "repo" =>
         pure.out.title = pure.arg.repository /\ pure.out.subtitle = pure.arg.description
    /\ pure.arg.type = "commit" =>
         pure.out.title = pure.arg.message /\ pure.out.subtitle = pure.arg.authorDate
    /\ pure.arg.type = "path" =>
         pure.out.title = pure.arg.path /\ pure.out.subtitle = ""
    /\ pure.arg.type = "content" =>
         /\ pure.out.title =
              Interleaved([i \in 1..Len(pure.arg.lineMatches) |-> Trimmed(pure.arg.lineMatches[i].line)],
                          <<" ", ".", ".", ".", " ">>)
         /\ pure.out.subtitle = pure.arg.path
    /\ pure.arg.type = "symbol" =>
         /\ pure.out.title =
              Interleaved([i \in 1..Len(pure.arg.symbols) |-> pure.arg.symbols[i].name], <<",", " ">>)
         /\ pure.out.subtitle = pure.arg.path

\* C17 witness: the content match with the lines " x y " and "<tab>z" is titled
\* "x y ... z"
ContentTitleJoinsTrimmedLines ==
  /\ pure.fn = "SearchResultItem" /\ pure.done
  /\ pure.arg.type = "content"
  /\ pure.out.title = <<"x", " ", "y", " ", ".", ".", ".", " ", "z">>
  /\ pure.out.subtitle = <<"a", ".", "g", "o">>

=============================================================================
